---- MODULE Spec2Model ----
(***************************************************************************)
(* Temporal segmentation and selection of SceneLens.                       *)
(*                                                                         *)
(*   src/backend/search.py            SearchEngine segmentation pipeline   *)
(*   src/pipeline/on_demand_extract.py  temporally diverse frame selection *)
(*   src/backend/blip2_search.py        searches sharing one engine        *)
(*                                                                         *)
(* Units.  Python floats are modelled as exact fixed-point integers:       *)
(*   - times are in tenths of a second (1.0 s = 10, 0.5 s = 5);            *)
(*   - a score s in [0,1] is stored as 100 * s * Den, where Den is         *)
(*     MaxFrames!, so that the mean of up to MaxFrames scores is again an  *)
(*     integer and every comparison of the code is exact.                  *)
(***************************************************************************)
EXTENDS Integers, Sequences, FiniteSets, TLC

\* ------------------------------------------------------------------ bounds
MaxFrames == 3
MaxSegs == 3
MaxCands == 4
MaxK == 4
MaxBlipFrames == 3

\* input alphabets
Times == {0, 10, 29, 35}
Scores == {25, 30, 50, 90}
Queries == {"dog", "red strip"}
SegStarts == {0, 10, 29, 35, 55}
SegDurations == {10, 30}
SegScores == {30, 50, 90}
FilterScores == {20, 30, 50, 63, 90}
SelTimes == {0, 3, 5, 8, 50}
Intervals == {12, 20}
Responses == {"no", "yes"}
Calls == {1, 2}
SearchIntervals == {10, 12, 20}
SearchResponses == {"no", "yes", "yes, possibly"}

RECURSIVE Factorial(_)
Factorial(n) == IF n <= 1 THEN 1 ELSE n * Factorial(n - 1)

Den == Factorial(MaxFrames)

None == "None"

\* ------------------------------------------------- constants of the source
similarity_threshold == 25
merge_threshold == 15
min_quality_score == 30
diversity_gap == 5
min_duration == 10
fps == 30
default_frame_interval == 10
min_max_gap == 20
blip2_top_k == 10

\* ------------------------------------------------------------- generic ops
Abs(x) == IF x < 0 THEN 0 - x ELSE x

Min2(a, b) == IF a <= b THEN a ELSE b

RECURSIVE SumScores(_)
SumScores(region) ==
    IF region = <<>> THEN 0
    ELSE Head(region).similarity_score + SumScores(Tail(region))

\* ------------------------------------------------------------------- state
VARIABLES
    pc,               \* position of the running call
    query,            \* query argument
    extracted_frames, \* the caller's frame list
    sorted_frames,    \* local of _group_frames_into_segments
    relevant_frames,  \* local of _detect_content_boundaries
    regions,          \* local of _find_continuous_regions
    current_region,   \* local of _find_continuous_regions
    i,                \* loop index of _find_continuous_regions
    segments,         \* input list of _merge_close_segments
    merged,           \* local of _merge_close_segments / its return value
    current,          \* local of _merge_close_segments
    j,                \* loop index of _merge_close_segments
    first_pass,       \* <<output, input>> of an earlier merger call, or <<>>
    result,           \* value returned by the call
    similarities,     \* candidates of _select_temporally_diverse_frames
    top_k,            \* k of _select_temporally_diverse_frames
    selected,         \* local of _select_temporally_diverse_frames
    timestamps,       \* local of _select_temporally_diverse_frames
    n,                \* loop index of _select_temporally_diverse_frames
    self_frame_interval, \* attribute frame_interval of the shared engine
    call_pc,          \* position of each search_video_with_blip2 call
    frame_interval,   \* argument of each search_video_with_blip2 call
    video,            \* the model's answer for each sampled frame, per call
    blip2_frames,     \* local frames of search_video_with_blip2, per call
    frame_index,      \* loop index of _analyze_frames_with_blip2, per call
    relevant_segments, \* local of _analyze_frames_with_blip2, per call
    results           \* value returned by each call

vars == <<pc, query, extracted_frames, sorted_frames, relevant_frames, regions,
          current_region, i, segments, merged, current, j, first_pass, result,
          similarities, top_k, selected, timestamps, n, self_frame_interval,
          call_pc, frame_interval, video, blip2_frames, frame_index,
          relevant_segments, results>>

segVars == <<sorted_frames, relevant_frames, regions, current_region, i>>

mergeVars == <<segments, merged, current, j, first_pass>>

selVars == <<similarities, top_k, selected, timestamps, n>>

blipVars == <<self_frame_interval, call_pc, frame_interval, video,
              blip2_frames, frame_index, relevant_segments, results>>

\* ================================================================ search.py
\* sorted(extracted_frames, key=timestamp_seconds): stable insertion sort
RECURSIVE InsertByTimestamp(_, _)
InsertByTimestamp(f, sorted) ==
    IF sorted = <<>> THEN <<f>>
    ELSE IF Head(sorted).timestamp_seconds <= f.timestamp_seconds
         THEN <<Head(sorted)>> \o InsertByTimestamp(f, Tail(sorted))
         ELSE <<f>> \o sorted

\* mutant: the frames are used in the caller's order
SortByTimestamp_Unsorted(frames) == frames

RECURSIVE SortByTimestamp(_)
SortByTimestamp(frames) ==
    IF frames = <<>> THEN <<>>
    ELSE InsertByTimestamp(frames[Len(frames)],
                           SortByTimestamp(SubSeq(frames, 1, Len(frames) - 1)))

\* mutant: the threshold itself counts as relevant (>= for >)
IsRelevant_Inclusive(f) == f.similarity_score >= similarity_threshold * Den

\* f['similarity_score'] > similarity_threshold
IsRelevant(f) == f.similarity_score > similarity_threshold * Den

\* mutant: the relevance filter is skipped
RelevantFrames_Unfiltered(frames) == frames

RelevantFrames(frames) == SelectSeq(frames, IsRelevant)

\* mutant: an average of exactly 0.3 already gets the larger gap (>= for >)
MaxGap_Inclusive(cur, last) ==
    IF cur.similarity_score + last.similarity_score >= 2 * 30 * Den
    THEN 20 ELSE 10

\* max_gap of _find_continuous_regions: 2.0 if avg_similarity > 0.3 else 1.0
MaxGap(cur, last) ==
    IF cur.similarity_score + last.similarity_score > 2 * 30 * Den
    THEN 20 ELSE 10

\* mutant: a gap equal to max_gap does not join
JoinsRegion_StrictGap(cur, last) ==
    /\ cur.timestamp_seconds - last.timestamp_seconds < MaxGap(cur, last)
    /\ Abs(cur.similarity_score - last.similarity_score) <= 40 * Den

\* the join test of _find_continuous_regions
JoinsRegion(cur, last) ==
    /\ cur.timestamp_seconds - last.timestamp_seconds <= MaxGap(cur, last)
    /\ Abs(cur.similarity_score - last.similarity_score) <= 40 * Den

\* max(region, key=similarity_score): the first frame with the maximal score
RECURSIVE BestFrame(_)
BestFrame(region) ==
    IF Len(region) = 1 THEN region[1]
    ELSE LET b == BestFrame(Tail(region))
         IN  IF b.similarity_score > Head(region).similarity_score
             THEN b ELSE Head(region)

\* query.lower() contains one of the words
HasWord(q, words) == q \in words

BlueCircleQueries == {"blue circle"}

RedStripQueries == {"red strip"}

\* the caption text is kept as its parts: description, time range
GenerateSegmentCaption(start_time, end_time, q, original_caption) ==
    IF original_caption # None /\ original_caption # ""
       /\ original_caption # "Content at"
    THEN [form |-> "described", text |-> original_caption,
          start |-> start_time, end |-> end_time,
          duration |-> end_time - start_time]
    ELSE IF HasWord(q, BlueCircleQueries \cup RedStripQueries)
    THEN [form |-> "typed",
          text |-> IF HasWord(q, BlueCircleQueries)
                   THEN "Blue Circle Content" ELSE "Red Strip Content",
          start |-> start_time, end |-> end_time,
          duration |-> end_time - start_time]
    ELSE [form |-> "generic", text |-> "Content",
          start |-> start_time, end |-> end_time,
          duration |-> end_time - start_time]

\* mutant: a single-frame region is not widened
CreateSegmentFromRegion_NoWidening(region, q) ==
    LET start_time == region[1].timestamp_seconds
        end_time == region[Len(region)].timestamp_seconds
        best_frame == BestFrame(region)
        avg_similarity == SumScores(region) \div Len(region)
    IN  [start_time |-> start_time,
         end_time |-> end_time,
         start_frame |-> region[1].frame_number,
         best_score |-> avg_similarity,
         best_image |-> best_frame.pil_image,
         keyframe_path |-> best_frame.keyframe_path,
         caption |-> GenerateSegmentCaption(start_time, end_time, q,
                                            best_frame.caption)]

\* mutant: the score of the best frame instead of the mean
CreateSegmentFromRegion_MaxScore(region, q) ==
    LET start_time == region[1].timestamp_seconds
        last_time == region[Len(region)].timestamp_seconds
        end_time == IF start_time = last_time
                    THEN start_time + min_duration ELSE last_time
        best_frame == BestFrame(region)
    IN  [start_time |-> start_time,
         end_time |-> end_time,
         start_frame |-> region[1].frame_number,
         best_score |-> best_frame.similarity_score,
         best_image |-> best_frame.pil_image,
         keyframe_path |-> best_frame.keyframe_path,
         caption |-> GenerateSegmentCaption(start_time, end_time, q,
                                            best_frame.caption)]

CreateSegmentFromRegion(region, q) ==
    LET start_time == region[1].timestamp_seconds
        last_time == region[Len(region)].timestamp_seconds
        end_time == IF start_time = last_time
                    THEN start_time + min_duration ELSE last_time
        best_frame == BestFrame(region)
        avg_similarity == SumScores(region) \div Len(region)
    IN  [start_time |-> start_time,
         end_time |-> end_time,
         start_frame |-> region[1].frame_number,
         best_score |-> avg_similarity,
         best_image |-> best_frame.pil_image,
         keyframe_path |-> best_frame.keyframe_path,
         caption |-> GenerateSegmentCaption(start_time, end_time, q,
                                            best_frame.caption)]

\* mutant: only a non-negative gap is merged
CloseEnough_NonNegativeGap(cur, nxt) ==
    /\ nxt.start_time - cur.end_time >= 0
    /\ 20 * Den * (nxt.start_time - cur.end_time)
          <= 20 * Den * merge_threshold + (cur.best_score + nxt.best_score)

\* mutant: the fixed base threshold, without the score term
CloseEnough_FixedThreshold(cur, nxt) ==
    nxt.start_time - cur.end_time <= merge_threshold

\* mutant: the gap is measured to the end of the next segment
CloseEnough_GapToNextEnd(cur, nxt) ==
    20 * Den * (nxt.end_time - cur.end_time)
        <= 20 * Den * merge_threshold + (cur.best_score + nxt.best_score)

\* time_gap <= merge_threshold + avg_score, scaled by 2 * 10 * Den
CloseEnough(cur, nxt) ==
    20 * Den * (nxt.start_time - cur.end_time)
        <= 20 * Den * merge_threshold + (cur.best_score + nxt.best_score)

\* mutant: the merged segment keeps current's end_time
MergeInto_KeepsEnd(cur, nxt, q) ==
    LET better == nxt.best_score > cur.best_score
    IN  [start_time |-> cur.start_time,
         end_time |-> cur.end_time,
         start_frame |-> cur.start_frame,
         best_score |-> IF better THEN nxt.best_score ELSE cur.best_score,
         best_image |-> IF better THEN nxt.best_image ELSE cur.best_image,
         keyframe_path |-> IF better THEN nxt.keyframe_path
                           ELSE cur.keyframe_path,
         caption |-> GenerateSegmentCaption(cur.start_time, cur.end_time, q,
                                            None)]

\* mutant: the next segment's representative is also taken on an equal score
MergeInto_TakesOnTie(cur, nxt, q) ==
    LET better == nxt.best_score >= cur.best_score
    IN  [start_time |-> cur.start_time,
         end_time |-> nxt.end_time,
         start_frame |-> cur.start_frame,
         best_score |-> IF better THEN nxt.best_score ELSE cur.best_score,
         best_image |-> IF better THEN nxt.best_image ELSE cur.best_image,
         keyframe_path |-> IF better THEN nxt.keyframe_path
                           ELSE cur.keyframe_path,
         caption |-> GenerateSegmentCaption(cur.start_time, nxt.end_time, q,
                                            None)]

\* the merge branch of _merge_close_segments
MergeInto(cur, nxt, q) ==
    LET better == nxt.best_score > cur.best_score
    IN  [start_time |-> cur.start_time,
         end_time |-> nxt.end_time,
         start_frame |-> cur.start_frame,
         best_score |-> IF better THEN nxt.best_score ELSE cur.best_score,
         best_image |-> IF better THEN nxt.best_image ELSE cur.best_image,
         keyframe_path |-> IF better THEN nxt.keyframe_path
                           ELSE cur.keyframe_path,
         caption |-> GenerateSegmentCaption(cur.start_time, nxt.end_time, q,
                                            None)]

\* sorted(segments, key=best_score, reverse=True): stable, descending
RECURSIVE InsertByScore(_, _)
InsertByScore(s, sorted) ==
    IF sorted = <<>> THEN <<s>>
    ELSE IF Head(sorted).best_score >= s.best_score
         THEN <<Head(sorted)>> \o InsertByScore(s, Tail(sorted))
         ELSE <<s>> \o sorted

RECURSIVE SortByScoreDesc(_)
SortByScoreDesc(segs) ==
    IF segs = <<>> THEN <<>>
    ELSE InsertByScore(segs[Len(segs)],
                       SortByScoreDesc(SubSeq(segs, 1, Len(segs) - 1)))

\* mutant: strictly above the threshold (> for >=)
MeetsQuality_Strict(s, best_score) ==
    /\ s.best_score > min_quality_score * Den
    /\ 10 * s.best_score > 7 * best_score

\* s['best_score'] >= max(0.3, best_score * 0.7)
\* mutant: the absolute floor of 0.3 is missing
MeetsQuality_NoFloor(s, best_score) ==
    10 * s.best_score >= 7 * best_score

MeetsQuality(s, best_score) ==
    /\ s.best_score >= min_quality_score * Den
    /\ 10 * s.best_score >= 7 * best_score

\* mutant: the keep-the-top-segment fallback is missing
FilterQualitySegments_NoFallback(segs) ==
    IF segs = <<>> THEN segs
    ELSE LET sorted_segments == SortByScoreDesc(segs)
             best_score == sorted_segments[1].best_score
             Keep(s) == MeetsQuality(s, best_score)
         IN  SelectSeq(sorted_segments, Keep)

FilterQualitySegments(segs) ==
    IF segs = <<>> THEN segs
    ELSE LET sorted_segments == SortByScoreDesc(segs)
             best_score == sorted_segments[1].best_score
             Keep(s) == MeetsQuality(s, best_score)
             quality_segments == SelectSeq(sorted_segments, Keep)
         IN  IF Len(sorted_segments) = 1 THEN sorted_segments
             ELSE IF quality_segments = <<>> THEN <<sorted_segments[1]>>
             ELSE quality_segments

\* ---------------------------------------------------------------- inputs
\* one entry of extract_query_specific_frames' result; frame_number and the
\* image / path handles are identified with the sampling instant
Frame(t, s) ==
    [frame_number |-> t, timestamp_seconds |-> t, similarity_score |-> s * Den,
     pil_image |-> t, keyframe_path |-> t, caption |-> "A video frame"]

\* frame lists in any order, sampling instants pairwise distinct
DistinctTimes(len) ==
    { f \in [1..len -> Times] : \A a, b \in 1..len : a # b => f[a] # f[b] }

FrameListsOfLen(len) ==
    { [x \in 1..len |-> Frame(ts[x], ss[x])] :
        ts \in DistinctTimes(len), ss \in [1..len -> Scores] }

FrameLists == UNION { FrameListsOfLen(len) : len \in 0..MaxFrames }

\* inputs outside the alphabets: the worked inputs of the specification
\* (three frames of score 0.1 one second apart; frames (0 s, 0.6),
\* (0.5 s, 0.65), (1.0 s, 0.7)) and a region of mean 0.7 followed 2.2 s
\* later by a frame of score 0.8
ExampleFrameLists ==
    { <<Frame(0, 10), Frame(10, 10), Frame(20, 10)>>,
      <<Frame(0, 60), Frame(5, 65), Frame(10, 70)>>,
      <<Frame(0, 90), Frame(10, 50), Frame(32, 80)>>,
      <<Frame(0, 30), Frame(5, 90), Frame(8, 90)>> }

NoSelect ==
    /\ similarities = <<>>
    /\ top_k = 0
    /\ selected = <<>>
    /\ timestamps = <<>>
    /\ n = 0

NoBlip2 ==
    /\ self_frame_interval = <<>>
    /\ call_pc = <<>>
    /\ frame_interval = <<>>
    /\ video = <<>>
    /\ blip2_frames = <<>>
    /\ frame_index = <<>>
    /\ relevant_segments = <<>>
    /\ results = <<>>

NoPipeline ==
    /\ extracted_frames = <<>>
    /\ sorted_frames = <<>>
    /\ relevant_frames = <<>>
    /\ regions = <<>>
    /\ current_region = <<>>
    /\ i = 0

NoMerge ==
    /\ segments = <<>>
    /\ merged = <<>>
    /\ current = None
    /\ j = 0
    /\ first_pass = <<>>

\* ---------------------------------------------- the segmentation pipeline
Init ==
    /\ pc = "start"
    /\ query \in Queries
    /\ extracted_frames \in FrameLists \cup ExampleFrameLists
    /\ sorted_frames = <<>>
    /\ relevant_frames = <<>>
    /\ regions = <<>>
    /\ current_region = <<>>
    /\ i = 0
    /\ NoMerge
    /\ result = None
    /\ NoSelect
    /\ NoBlip2

\* _group_frames_into_segments: empty check, sort, call the detector
GroupFramesIntoSegments ==
    /\ pc = "start"
    /\ IF extracted_frames = <<>>
       THEN /\ result' = <<>>
            /\ pc' = "done"
            /\ UNCHANGED sorted_frames
       ELSE /\ sorted_frames' = SortByTimestamp(extracted_frames)
            /\ pc' = "detect"
            /\ UNCHANGED result
    /\ UNCHANGED <<query, extracted_frames, relevant_frames, regions,
                   current_region, i>>
    /\ UNCHANGED mergeVars
    /\ UNCHANGED selVars
    /\ UNCHANGED blipVars

\* _detect_content_boundaries up to the call of _find_continuous_regions,
\* and the entry of _find_continuous_regions
DetectContentBoundaries ==
    /\ pc = "detect"
    /\ relevant_frames' = RelevantFrames(sorted_frames)
    /\ IF relevant_frames' = <<>>
       THEN /\ result' = <<>>
            /\ pc' = "done"
            /\ UNCHANGED <<regions, current_region, i>>
       ELSE /\ regions' = <<>>
            /\ current_region' = <<relevant_frames'[1]>>
            /\ i' = 2
            /\ pc' = "regions"
            /\ UNCHANGED result
    /\ UNCHANGED <<query, extracted_frames, sorted_frames>>
    /\ UNCHANGED mergeVars
    /\ UNCHANGED selVars
    /\ UNCHANGED blipVars

\* one iteration of the loop of _find_continuous_regions
FindContinuousRegionsStep ==
    /\ pc = "regions"
    /\ i <= Len(relevant_frames)
    /\ LET current_frame == relevant_frames[i]
           last_frame == current_region[Len(current_region)]
       IN  IF JoinsRegion(current_frame, last_frame)
           THEN /\ current_region' = Append(current_region, current_frame)
                /\ UNCHANGED regions
           ELSE /\ regions' = Append(regions, current_region)
                /\ current_region' = <<current_frame>>
    /\ i' = i + 1
    /\ UNCHANGED <<pc, query, extracted_frames, sorted_frames, relevant_frames,
                   result>>
    /\ UNCHANGED mergeVars
    /\ UNCHANGED selVars
    /\ UNCHANGED blipVars

\* mutant: the region still open after the loop is not added
FindContinuousRegionsEnd_DropsOpenRegion ==
    /\ pc = "regions"
    /\ i > Len(relevant_frames)
    /\ pc' = "reduce"
    /\ UNCHANGED <<query, extracted_frames, sorted_frames, relevant_frames,
                   regions, current_region, i, result>>
    /\ UNCHANGED mergeVars
    /\ UNCHANGED selVars
    /\ UNCHANGED blipVars

\* after the loop of _find_continuous_regions: the last region is added
FindContinuousRegionsEnd ==
    /\ pc = "regions"
    /\ i > Len(relevant_frames)
    /\ regions' = Append(regions, current_region)
    /\ pc' = "reduce"
    /\ UNCHANGED <<query, extracted_frames, sorted_frames, relevant_frames,
                   current_region, i, result>>
    /\ UNCHANGED mergeVars
    /\ UNCHANGED selVars
    /\ UNCHANGED blipVars

\* back in _detect_content_boundaries: every region becomes one segment
CreateSegments ==
    /\ pc = "reduce"
    /\ segments' = [r \in 1..Len(regions) |->
                        CreateSegmentFromRegion(regions[r], query)]
    /\ pc' = "merge"
    /\ UNCHANGED <<query, extracted_frames, result>>
    /\ UNCHANGED segVars
    /\ UNCHANGED <<merged, current, j, first_pass>>
    /\ UNCHANGED selVars
    /\ UNCHANGED blipVars

\* entry of _merge_close_segments
MergeCloseSegmentsBegin ==
    /\ pc = "merge"
    /\ IF Len(segments) <= 1
       THEN /\ merged' = segments
            /\ pc' = "merged"
            /\ UNCHANGED <<current, j>>
       ELSE /\ merged' = <<>>
            /\ current' = segments[1]
            /\ j' = 2
            /\ pc' = "merging"
    /\ UNCHANGED <<query, extracted_frames, result, segments, first_pass>>
    /\ UNCHANGED segVars
    /\ UNCHANGED selVars
    /\ UNCHANGED blipVars

\* mutant: current is the input segment itself, not a copy of it
MergeCloseSegmentsStep_EditsInput ==
    /\ pc = "merging"
    /\ j <= Len(segments)
    /\ LET next_segment == segments[j]
           alias == CHOOSE y \in 1..Len(segments) :
                        segments[y].start_time = current.start_time
       IN  IF CloseEnough(current, next_segment)
           THEN /\ current' = MergeInto(current, next_segment, query)
                /\ segments' = [segments EXCEPT ![alias] = current']
                /\ UNCHANGED merged
           ELSE /\ merged' = Append(merged, current)
                /\ current' = next_segment
                /\ UNCHANGED segments
    /\ j' = j + 1
    /\ UNCHANGED <<pc, query, extracted_frames, result, first_pass>>
    /\ UNCHANGED segVars
    /\ UNCHANGED selVars
    /\ UNCHANGED blipVars

\* one iteration of the loop of _merge_close_segments
MergeCloseSegmentsStep ==
    /\ pc = "merging"
    /\ j <= Len(segments)
    /\ LET next_segment == segments[j]
       IN  IF CloseEnough(current, next_segment)
           THEN /\ current' = MergeInto(current, next_segment, query)
                /\ UNCHANGED merged
           ELSE /\ merged' = Append(merged, current)
                /\ current' = next_segment
    /\ j' = j + 1
    /\ UNCHANGED <<pc, query, extracted_frames, result, segments, first_pass>>
    /\ UNCHANGED segVars
    /\ UNCHANGED selVars
    /\ UNCHANGED blipVars

\* mutant: the segment still being built after the loop is not added
MergeCloseSegmentsEnd_DropsCurrent ==
    /\ pc = "merging"
    /\ j > Len(segments)
    /\ pc' = "merged"
    /\ UNCHANGED <<query, extracted_frames, result, segments, merged, current,
                   j, first_pass>>
    /\ UNCHANGED segVars
    /\ UNCHANGED selVars
    /\ UNCHANGED blipVars

\* after the loop: the last segment is added
MergeCloseSegmentsEnd ==
    /\ pc = "merging"
    /\ j > Len(segments)
    /\ merged' = Append(merged, current)
    /\ pc' = "merged"
    /\ UNCHANGED <<query, extracted_frames, result, segments, current, j,
                   first_pass>>
    /\ UNCHANGED segVars
    /\ UNCHANGED selVars
    /\ UNCHANGED blipVars

\* _filter_quality_segments, whose value the call returns
FilterQuality ==
    /\ pc = "merged"
    /\ result' = FilterQualitySegments(merged)
    /\ pc' = "done"
    /\ UNCHANGED <<query, extracted_frames>>
    /\ UNCHANGED segVars
    /\ UNCHANGED mergeVars
    /\ UNCHANGED selVars
    /\ UNCHANGED blipVars

Next ==
    \/ GroupFramesIntoSegments
    \/ DetectContentBoundaries
    \/ FindContinuousRegionsStep
    \/ FindContinuousRegionsEnd
    \/ CreateSegments
    \/ MergeCloseSegmentsBegin
    \/ MergeCloseSegmentsStep
    \/ MergeCloseSegmentsEnd
    \/ FilterQuality

Spec == Init /\ [][Next]_vars

\* ------------------------------------ the segment merger applied on its own
\* a segment as _create_segment_from_region builds it; x is the handle of
\* its representative image
Segment(x, start, dur, score) ==
    [start_time |-> start,
     end_time |-> start + dur,
     start_frame |-> start,
     best_score |-> score * Den,
     best_image |-> x,
     keyframe_path |-> x,
     caption |-> GenerateSegmentCaption(start, start + dur, "dog",
                                        "A video frame")]

\* segment lists sorted by start_time (starts strictly increasing)
SortedStarts(len) ==
    { f \in [1..len -> SegStarts] : \A a, b \in 1..len : a < b => f[a] < f[b] }

SegListsOfLen(len) ==
    { [x \in 1..len |-> Segment(x, st[x], du[x], sc[x])] :
        st \in SortedStarts(len), du \in [1..len -> SegDurations],
        sc \in [1..len -> SegScores] }

SegLists == UNION { SegListsOfLen(len) : len \in 0..MaxSegs }

InitMerge ==
    /\ pc = "merge"
    /\ query = "dog"
    /\ NoPipeline
    /\ segments \in SegLists
    /\ merged = <<>>
    /\ current = None
    /\ j = 0
    /\ first_pass = <<>>
    /\ result = None
    /\ NoSelect
    /\ NoBlip2

\* the caller passes the merger's return value to the merger again
MergeAgain ==
    /\ pc = "merged"
    /\ first_pass = <<>>
    /\ first_pass' = <<merged, segments>>
    /\ segments' = merged
    /\ merged' = <<>>
    /\ current' = None
    /\ j' = 0
    /\ pc' = "merge"
    /\ UNCHANGED <<query, extracted_frames, result>>
    /\ UNCHANGED segVars
    /\ UNCHANGED selVars
    /\ UNCHANGED blipVars

NextMerge ==
    \/ MergeCloseSegmentsBegin
    \/ MergeCloseSegmentsStep
    \/ MergeCloseSegmentsEnd
    \/ MergeAgain

SpecMerge == InitMerge /\ [][NextMerge]_vars

\* ------------------------------------- the quality filter applied on its own
FilterListsOfLen(len) ==
    { [x \in 1..len |-> Segment(x, 20 * (x - 1), 10, sc[x])] :
        sc \in [1..len -> FilterScores] }

FilterLists == UNION { FilterListsOfLen(len) : len \in 0..MaxSegs }

InitFilter ==
    /\ pc = "merged"
    /\ query = "dog"
    /\ NoPipeline
    /\ segments = <<>>
    /\ merged \in FilterLists
    /\ current = None
    /\ j = 0
    /\ first_pass = <<>>
    /\ result = None
    /\ NoSelect
    /\ NoBlip2

NextFilter == FilterQuality

SpecFilter == InitFilter /\ [][NextFilter]_vars

\* ==================================================== on_demand_extract.py
\* one entry of the similarities list, which the caller sorts by descending
\* similarity; rank is the position in that order
Candidate(rank, t) ==
    [frame_info |-> [frame_number |-> t, timestamp |-> t],
     similarity |-> 100 - 10 * rank]

CandListsOfLen(len) ==
    { [x \in 1..len |-> Candidate(x, ts[x])] :
        ts \in { f \in [1..len -> SelTimes] :
                   \A a, b \in 1..len : a # b => f[a] # f[b] } }

CandLists == UNION { CandListsOfLen(len) : len \in 0..MaxCands }

\* mutant: only the most recently selected timestamp is compared
IsDiverse_LastOnly(timestamp, times) ==
    times = <<>> \/ ~(Abs(timestamp - times[Len(times)]) < diversity_gap)

\* abs(timestamp - selected_time) < 0.5 for no selected_time
IsDiverse(timestamp, times) ==
    \A x \in 1..Len(times) : ~(Abs(timestamp - times[x]) < diversity_gap)

\* item in selected
\* mutant: the fill pass does not test membership
InSelected_Never(item, sel) == FALSE

InSelected(item, sel) == \E x \in 1..Len(sel) : sel[x] = item

\* similarities[:top_k] for top_k >= 0
Prefix(seq, k) == SubSeq(seq, 1, Min2(k, Len(seq)))

InitSelect ==
    /\ pc = "select"
    /\ query = "dog"
    /\ NoPipeline
    /\ NoMerge
    /\ NoBlip2
    /\ result = None
    /\ similarities \in CandLists
    /\ top_k \in 0..MaxK
    /\ selected = <<>>
    /\ timestamps = <<>>
    /\ n = 0

\* entry of _select_temporally_diverse_frames
SelectBegin ==
    /\ pc = "select"
    /\ IF Len(similarities) <= top_k
       THEN /\ result' = Prefix(similarities, top_k)
            /\ pc' = "done"
            /\ UNCHANGED <<selected, timestamps, n>>
       ELSE /\ selected' = <<>>
            /\ timestamps' = <<>>
            /\ n' = 1
            /\ pc' = "diverse"
            /\ UNCHANGED result
    /\ UNCHANGED <<query, extracted_frames, similarities, top_k>>
    /\ UNCHANGED segVars
    /\ UNCHANGED mergeVars
    /\ UNCHANGED blipVars

\* one iteration of the first loop; the loop ends by its break or when the
\* candidates are exhausted
SelectDiverseStep ==
    /\ pc = "diverse"
    /\ LET item == similarities[n]
           timestamp == item.frame_info.timestamp
           is_diverse == IsDiverse(timestamp, timestamps)
       IN  /\ IF is_diverse
              THEN /\ selected' = Append(selected, item)
                   /\ timestamps' = Append(timestamps, timestamp)
              ELSE UNCHANGED <<selected, timestamps>>
           /\ IF (is_diverse /\ Len(selected') >= top_k)
                 \/ n = Len(similarities)
              THEN /\ pc' = "after_diverse"
                   /\ UNCHANGED n
              ELSE /\ n' = n + 1
                   /\ UNCHANGED pc
    /\ UNCHANGED <<query, extracted_frames, result, similarities, top_k>>
    /\ UNCHANGED segVars
    /\ UNCHANGED mergeVars
    /\ UNCHANGED blipVars

\* between the loops: enough diverse frames, or fill from the top results
SelectAfterDiverse ==
    /\ pc = "after_diverse"
    /\ IF Len(selected) < top_k
       THEN /\ n' = 1
            /\ pc' = "fill"
            /\ UNCHANGED result
       ELSE /\ result' = selected
            /\ pc' = "done"
            /\ UNCHANGED n
    /\ UNCHANGED <<query, extracted_frames, similarities, top_k, selected,
                   timestamps>>
    /\ UNCHANGED segVars
    /\ UNCHANGED mergeVars
    /\ UNCHANGED blipVars

\* one iteration of the second loop; on its break or at the end of the
\* candidates the function returns selected
SelectFillStep ==
    /\ pc = "fill"
    /\ LET item == similarities[n]
           added == ~InSelected(item, selected)
       IN  /\ selected' = IF added THEN Append(selected, item) ELSE selected
           /\ IF (added /\ Len(selected') >= top_k) \/ n = Len(similarities)
              THEN /\ result' = selected'
                   /\ pc' = "done"
                   /\ UNCHANGED n
              ELSE /\ n' = n + 1
                   /\ UNCHANGED <<pc, result>>
    /\ UNCHANGED <<query, extracted_frames, similarities, top_k, timestamps>>
    /\ UNCHANGED segVars
    /\ UNCHANGED mergeVars
    /\ UNCHANGED blipVars

NextSelect ==
    \/ SelectBegin
    \/ SelectDiverseStep
    \/ SelectAfterDiverse
    \/ SelectFillStep

SpecSelect == InitSelect /\ [][NextSelect]_vars

\* ===================================== src/backend/blip2_search.py
Max2(a, b) == IF a >= b THEN a ELSE b

\* the indicator words of _is_frame_relevant and _calculate_confidence that
\* occur as substrings of a response
WordsIn(response) ==
    CASE response = "yes" -> {"yes"}
      [] response = "no" -> {"no"}
      [] response = "yes, possibly" -> {"yes", "yes,", "possibly"}
      [] OTHER -> {}

strong_positive ==
    {"yes", "yes.", "yes,", "yes it", "yes it does", "yes it shows",
     "yes, it", "yes, it does"}

strong_negative ==
    {"no", "no.", "no,", "no it", "no it does not", "no it does not show",
     "no, it", "no, it does not"}

positive_indicators ==
    {"shows", "contains", "displays", "has", "includes", "is", "showing"}

negative_indicators ==
    {"does not", "doesn't", "not visible", "not present", "not", "none"}

IsFrameRelevant(blip2_response, q) ==
    LET words == WordsIn(blip2_response)
        has_strong_positive == words \cap strong_positive # {}
        has_strong_negative == words \cap strong_negative # {}
        positive_count == Cardinality(words \cap positive_indicators)
        negative_count == Cardinality(words \cap negative_indicators)
        query_in_response == q \in words
    IN  IF has_strong_positive /\ ~has_strong_negative THEN TRUE
        ELSE IF has_strong_negative THEN FALSE
        ELSE \/ positive_count > negative_count
             \/ query_in_response /\ negative_count = 0

\* confidence in hundredths
CalculateConfidence(blip2_response) ==
    LET words == WordsIn(blip2_response)
        confidence ==
            50
            + (IF "yes" \in words THEN 30 ELSE 0)
            + (IF words \cap {"clearly", "definitely"} # {} THEN 20 ELSE 0)
            + (IF words \cap {"exactly", "precisely"} # {} THEN 10 ELSE 0)
            - (IF words \cap {"maybe", "possibly"} # {} THEN 20 ELSE 0)
            - (IF words \cap {"unclear", "hard to see"} # {} THEN 30 ELSE 0)
    IN  Max2(0, Min2(100, confidence))

\* getattr(self, 'frame_interval', 1.0): the attribute is <<>> until set
GetFrameInterval(attribute) ==
    IF attribute = <<>> THEN default_frame_interval ELSE attribute[1]

\* mutant: the 2.0 s minimum of max_gap is missing
MaxGapDoubled_NoMinimum(interval) == 3 * interval

\* max(frame_interval * 1.5, 2.0), kept doubled so that it stays an integer
MaxGapDoubled(interval) == Max2(3 * interval, 2 * min_max_gap)

\* frames sampled every int(fps * frame_interval) frames; answers[x] is what
\* the model answers for the x-th sampled image
ExtractFramesFromVideo(answers, interval) ==
    LET frame_interval_frames == Max2(1, (fps * interval) \div 10)
    IN  [x \in 1..Len(answers) |->
            [frame_number |-> (x - 1) * frame_interval_frames,
             timestamp_seconds |->
                 ((x - 1) * frame_interval_frames * 10) \div fps,
             pil_image |-> x,
             response |-> answers[x]]]

\* the segment built for one relevant frame
FrameSegment(frame, attribute) ==
    [frame_number |-> frame.frame_number,
     timestamp_seconds |-> frame.timestamp_seconds,
     start_time |-> frame.timestamp_seconds,
     end_time |-> frame.timestamp_seconds + GetFrameInterval(attribute),
     blip2_description |-> [multiple |-> FALSE, text |-> frame.response],
     confidence |-> CalculateConfidence(frame.response),
     pil_image |-> frame.pil_image,
     keyframe_path |-> frame.frame_number]

\* max(segments, key=confidence): the first segment of highest confidence
BestSegment(group) ==
    LET y == CHOOSE y \in 1..Len(group) :
                 /\ \A z \in 1..Len(group) :
                        group[z].confidence <= group[y].confidence
                 /\ \A z \in 1..(y - 1) :
                        group[z].confidence < group[y].confidence
    IN  group[y]

MergeSegmentGroup(group) ==
    IF Len(group) = 1 THEN group[1]
    ELSE LET best_segment == BestSegment(group)
             start == CHOOSE t \in {group[y].start_time : y \in 1..Len(group)} :
                          \A y \in 1..Len(group) : t <= group[y].start_time
             end == CHOOSE t \in {group[y].end_time : y \in 1..Len(group)} :
                        \A y \in 1..Len(group) : t >= group[y].end_time
         IN  [best_segment EXCEPT
                 !.start_time = start,
                 !.end_time = end,
                 !.blip2_description =
                     [multiple |-> TRUE,
                      text |-> best_segment.blip2_description.text]]

RECURSIVE GroupFrom(_, _, _, _, _)
GroupFrom(segs, x, current_group, grouped, max_gap_doubled) ==
    IF x > Len(segs)
    THEN Append(grouped, MergeSegmentGroup(current_group))
    ELSE LET last_segment == current_group[Len(current_group)]
             time_gap == segs[x].timestamp_seconds
                         - last_segment.timestamp_seconds
         IN  IF 2 * time_gap <= max_gap_doubled
             THEN GroupFrom(segs, x + 1, Append(current_group, segs[x]),
                            grouped, max_gap_doubled)
             ELSE GroupFrom(segs, x + 1, <<segs[x]>>,
                            Append(grouped, MergeSegmentGroup(current_group)),
                            max_gap_doubled)

GroupNearbySegments(segs, max_gap_doubled) ==
    IF segs = <<>> THEN <<>>
    ELSE GroupFrom(segs, 2, <<segs[1]>>, <<>>, max_gap_doubled)

RECURSIVE InsertSegmentByTimestamp(_, _)
InsertSegmentByTimestamp(seg, sorted) ==
    IF sorted = <<>> THEN <<seg>>
    ELSE IF seg.timestamp_seconds < Head(sorted).timestamp_seconds
    THEN <<seg>> \o sorted
    ELSE <<Head(sorted)>> \o InsertSegmentByTimestamp(seg, Tail(sorted))

\* relevant_segments.sort(key=timestamp_seconds): stable, ascending
RECURSIVE SortSegmentsByTimestamp(_)
SortSegmentsByTimestamp(segs) ==
    IF segs = <<>> THEN <<>>
    ELSE InsertSegmentByTimestamp(segs[Len(segs)],
             SortSegmentsByTimestamp(SubSeq(segs, 1, Len(segs) - 1)))

\* the frame loop of _analyze_frames_with_blip2 with the engine attribute
\* holding one value throughout
RECURSIVE RelevantSegmentsOf(_, _, _)
RelevantSegmentsOf(frs, q, attribute) ==
    IF frs = <<>> THEN <<>>
    ELSE LET rest == RelevantSegmentsOf(SubSeq(frs, 1, Len(frs) - 1), q,
                                        attribute)
             frame == frs[Len(frs)]
         IN  IF IsFrameRelevant(frame.response, q)
             THEN Append(rest, FrameSegment(frame, attribute))
             ELSE rest

\* ------------------------- two searches interleaved on the shared engine
InitBlip2 ==
    /\ pc = "idle"
    /\ query = "dog"
    /\ NoPipeline
    /\ NoMerge
    /\ NoSelect
    /\ result = None
    /\ self_frame_interval = <<>>
    /\ call_pc = [c \in Calls |-> "start"]
    /\ frame_interval \in [Calls -> Intervals]
    /\ video \in [Calls -> [1..MaxBlipFrames -> Responses]]
    /\ blip2_frames = [c \in Calls |-> <<>>]
    /\ frame_index = [c \in Calls |-> 0]
    /\ relevant_segments = [c \in Calls |-> <<>>]
    /\ results = [c \in Calls |-> <<>>]

BlipOthersUnchanged ==
    /\ UNCHANGED <<pc, query, extracted_frames, result>>
    /\ UNCHANGED segVars
    /\ UNCHANGED mergeVars
    /\ UNCHANGED selVars

\* search_video_with_blip2: self.frame_interval = frame_interval
StoreFrameInterval(c) ==
    /\ call_pc[c] = "start"
    /\ self_frame_interval' = <<frame_interval[c]>>
    /\ call_pc' = [call_pc EXCEPT ![c] = "extract"]
    /\ UNCHANGED <<frame_interval, video, blip2_frames, frame_index,
                   relevant_segments, results>>
    /\ BlipOthersUnchanged

\* search_video_with_blip2: frames = self._extract_frames_from_video(...)
ExtractFrames(c) ==
    /\ call_pc[c] = "extract"
    /\ blip2_frames' = [blip2_frames EXCEPT
           ![c] = ExtractFramesFromVideo(video[c], frame_interval[c])]
    /\ frame_index' = [frame_index EXCEPT ![c] = 1]
    /\ call_pc' = [call_pc EXCEPT ![c] = "analyze"]
    /\ UNCHANGED <<self_frame_interval, frame_interval, video,
                   relevant_segments, results>>
    /\ BlipOthersUnchanged

\* one iteration of the frame loop of _analyze_frames_with_blip2
AnalyzeFrame(c) ==
    /\ call_pc[c] = "analyze"
    /\ frame_index[c] <= Len(blip2_frames[c])
    /\ LET frame == blip2_frames[c][frame_index[c]]
       IN  relevant_segments' = [relevant_segments EXCEPT
               ![c] = IF IsFrameRelevant(frame.response, query)
                      THEN Append(@, FrameSegment(frame, self_frame_interval))
                      ELSE @]
    /\ frame_index' = [frame_index EXCEPT ![c] = @ + 1]
    /\ UNCHANGED <<self_frame_interval, call_pc, frame_interval, video,
                   blip2_frames, results>>
    /\ BlipOthersUnchanged

\* after the loop: sort, read self.frame_interval, group, and the
\* caller's relevant_segments[:top_k]
GroupAndReturn(c) ==
    /\ call_pc[c] = "analyze"
    /\ frame_index[c] > Len(blip2_frames[c])
    /\ LET sorted == SortSegmentsByTimestamp(relevant_segments[c])
           max_gap_doubled ==
               MaxGapDoubled(GetFrameInterval(self_frame_interval))
           grouped_segments == GroupNearbySegments(sorted, max_gap_doubled)
       IN  /\ relevant_segments' = [relevant_segments EXCEPT ![c] = sorted]
           /\ results' = [results EXCEPT
                  ![c] = Prefix(grouped_segments, blip2_top_k)]
    /\ call_pc' = [call_pc EXCEPT ![c] = "done"]
    /\ UNCHANGED <<self_frame_interval, frame_interval, video, blip2_frames,
                   frame_index>>
    /\ BlipOthersUnchanged

NextBlip2 ==
    \E c \in Calls :
        \/ StoreFrameInterval(c)
        \/ ExtractFrames(c)
        \/ AnalyzeFrame(c)
        \/ GroupAndReturn(c)

SpecBlip2 == InitBlip2 /\ [][NextBlip2]_vars


\* ------------- both search paths on the same (timestamp, score) observations
\* the relevant frames of a vision-language search as scored frames of the
\* on-demand search: same timestamp, similarity_score = confidence
RECURSIVE Observations(_)
Observations(segs) ==
    IF segs = <<>> THEN <<>>
    ELSE <<Frame(Head(segs).timestamp_seconds, Head(segs).confidence)>>
         \o Observations(Tail(segs))

InitPaths ==
    /\ pc = "start"
    /\ query = "dog"
    /\ sorted_frames = <<>>
    /\ relevant_frames = <<>>
    /\ regions = <<>>
    /\ current_region = <<>>
    /\ i = 0
    /\ NoMerge
    /\ result = None
    /\ NoSelect
    /\ self_frame_interval = <<>>
    /\ call_pc = [c \in {1} |-> "start"]
    /\ frame_interval \in [{1} -> Intervals]
    /\ video \in [{1} -> [1..MaxBlipFrames -> Responses]]
    /\ blip2_frames = [c \in {1} |-> <<>>]
    /\ frame_index = [c \in {1} |-> 0]
    /\ relevant_segments = [c \in {1} |-> <<>>]
    /\ results = [c \in {1} |-> <<>>]
    /\ extracted_frames =
           Observations(RelevantSegmentsOf(
               ExtractFramesFromVideo(video[1], frame_interval[1]), query,
               <<frame_interval[1]>>))

NextPaths ==
    \/ Next
    \/ StoreFrameInterval(1)
    \/ ExtractFrames(1)
    \/ AnalyzeFrame(1)
    \/ GroupAndReturn(1)

SpecPaths == InitPaths /\ [][NextPaths]_vars

\* ----------------------------------- one search alone on the engine
InitSearch ==
    /\ pc = "idle"
    /\ query = "dog"
    /\ NoPipeline
    /\ NoMerge
    /\ NoSelect
    /\ result = None
    /\ self_frame_interval = <<>>
    /\ call_pc = [c \in {1} |-> "start"]
    /\ frame_interval \in [{1} -> SearchIntervals]
    /\ video \in [{1} -> [1..MaxBlipFrames -> SearchResponses]]
    /\ blip2_frames = [c \in {1} |-> <<>>]
    /\ frame_index = [c \in {1} |-> 0]
    /\ relevant_segments = [c \in {1} |-> <<>>]
    /\ results = [c \in {1} |-> <<>>]

NextSearch ==
    \/ StoreFrameInterval(1)
    \/ ExtractFrames(1)
    \/ AnalyzeFrame(1)
    \/ GroupAndReturn(1)

SpecSearch == InitSearch /\ [][NextSearch]_vars

\* ================================================================== claims
Chronological(segs) ==
    \A a, b \in 1..Len(segs) : a < b => segs[a].start_time <= segs[b].start_time

\* C1: the segments returned by end-to-end segmentation are in
\* non-decreasing start_time order.
C1_ResultChronological == pc = "done" => Chronological(result)

\* C2: for time-sorted frames the merger's output has at most as many
\* segments as its input, is in chronological order, has
\* start_time <= end_time in every segment, and each segment ends no later
\* than the following one starts.
C2_MergedOrderedDisjoint ==
    pc = "merged" =>
        /\ Len(merged) <= Len(segments)
        /\ Chronological(merged)
        /\ \A a \in 1..Len(merged) : merged[a].start_time <= merged[a].end_time
        /\ \A a \in 1..(Len(merged) - 1) :
              merged[a].end_time <= merged[a + 1].start_time

C2_Witness ==
    /\ pc = "merged"
    /\ Len(segments) = 3
    /\ Len(merged) = 2

\* C3: segmentation returns the empty list when the frame list is empty or
\* no frame scores strictly above 0.25.
C3_NoMatchNoSegment ==
    (pc = "done"
     /\ \A x \in 1..Len(extracted_frames) :
            extracted_frames[x].similarity_score <= 25 * Den)
        => result = <<>>

C3_Witness ==
    /\ pc = "done"
    /\ Len(extracted_frames) = 2
    /\ \A x \in 1..Len(extracted_frames) :
           extracted_frames[x].similarity_score = 25 * Den
    /\ result = <<>>

\* C4: the quality filter returns a non-empty list for a non-empty input and
\* every returned segment is one of the input segments.
C4_FilterNonEmptySubset ==
    pc = "done" =>
        /\ merged # <<>> => result # <<>>
        /\ \A x \in 1..Len(result) :
              \E y \in 1..Len(merged) : merged[y] = result[x]

C4_Witness ==
    /\ pc = "done"
    /\ Len(merged) = 2
    /\ \A y \in 1..Len(merged) : merged[y].best_score < 30 * Den
    /\ Len(result) = 1

BestOf(segs) ==
    CHOOSE b \in { segs[x].best_score : x \in 1..Len(segs) } :
        \A x \in 1..Len(segs) : segs[x].best_score <= b

\* score >= max(0.3, 0.7 * best)
AboveBand(s, segs) ==
    /\ 100 * s.best_score >= 100 * 30 * Den
    /\ 100 * s.best_score >= 70 * BestOf(segs)

\* C5: when at least one input segment scores >= max(0.3, 0.7 * best), the
\* quality filter returns exactly the input segments that do.
C5_FilterKeepsBand ==
    (pc = "done" /\ \E y \in 1..Len(merged) : AboveBand(merged[y], merged))
        => /\ \A y \in 1..Len(merged) :
                 AboveBand(merged[y], merged)
                     <=> \E x \in 1..Len(result) : result[x] = merged[y]
           /\ \A x \in 1..Len(result) :
                 \E y \in 1..Len(merged) : merged[y] = result[x]
           /\ \A a, b \in 1..Len(result) : a # b => result[a] # result[b]

\* scores [0.9, 0.5, 0.2] keep only the 0.9 segment
C5_Witness ==
    /\ pc = "done"
    /\ Len(merged) = 3
    /\ merged[1].best_score = 90 * Den
    /\ merged[2].best_score = 50 * Den
    /\ merged[3].best_score = 20 * Den
    /\ result = <<merged[1]>>

\* C6: the selector returns exactly min(k, len(candidates)) items for every
\* k >= 0.
C6_ReturnsMinKLen ==
    pc = "done" =>
        Len(result) = IF top_k <= Len(similarities)
                      THEN top_k ELSE Len(similarities)

HasClosePair(sel) ==
    \E a, b \in 1..Len(sel) :
        /\ a # b
        /\ Abs(sel[a].frame_info.timestamp - sel[b].frame_info.timestamp) < 5

\* the greedy diversity pass over the first m candidates, never cut short
RECURSIVE GreedyAll(_, _)
GreedyAll(cands, m) ==
    IF m = 0 THEN <<>>
    ELSE LET acc == GreedyAll(cands, m - 1)
             t == cands[m].frame_info.timestamp
         IN  IF \A x \in 1..Len(acc) :
                    Abs(t - acc[x].frame_info.timestamp) >= 5
             THEN Append(acc, cands[m]) ELSE acc

\* C7: two returned items are less than 0.5 s apart only if the greedy pass
\* over all candidates accepts fewer than k of them.
C7_CloseOnlyWhenForced ==
    (pc = "done" /\ HasClosePair(result))
        => Len(GreedyAll(similarities, Len(similarities))) < top_k

C7_Witness ==
    /\ pc = "done"
    /\ Len(similarities) > top_k
    /\ HasClosePair(result)

\* the specified algorithm: accepted candidates (at most k), then skipped
\* candidates in the same order until k items
TwoPass(cands, k) ==
    LET accepted == Prefix(GreedyAll(cands, Len(cands)), k)
        Skipped(c) == \A x \in 1..Len(accepted) : accepted[x] # c
        skipped == SelectSeq(cands, Skipped)
    IN  accepted \o Prefix(skipped, k - Len(accepted))

\* C8: the selector returns the same sequence as the two-pass algorithm,
\* also when len(candidates) <= k.
C8_EqualsTwoPass == pc = "done" => result = TwoPass(similarities, top_k)

\* C9: applying the merger to its own output returns that output unchanged.
C9_MergeIdempotent ==
    (pc = "merged" /\ first_pass # <<>>) => merged = first_pass[1]

\* no merge of the first application raised a score: every output segment
\* carries the score of the input segment it starts with
NoScoreRaised(output, input) ==
    \A a \in 1..Len(output) :
        \E b \in 1..Len(input) :
            /\ input[b].start_time = output[a].start_time
            /\ input[b].best_score = output[a].best_score

\* C9 (amended): applying the merger to its own output returns that output
\* unchanged when no merge of the first application raised a segment's
\* score.
C9_IdempotentIfNoScoreRaised ==
    (pc = "merged" /\ first_pass # <<>>
     /\ NoScoreRaised(first_pass[1], first_pass[2]))
        => merged = first_pass[1]

C9_Witness ==
    /\ pc = "merged"
    /\ first_pass # <<>>
    /\ NoScoreRaised(first_pass[1], first_pass[2])
    /\ Len(first_pass[2]) = 3
    /\ Len(first_pass[1]) = 2
    /\ merged = first_pass[1]

\* next.start_time - current.end_time <= 1.5 + (current + next score) / 2
WithinDynamicThreshold(cur, nxt) ==
    2 * 100 * Den * (nxt.start_time - cur.end_time)
        <= 2 * 100 * Den * 15 + 10 * (cur.best_score + nxt.best_score)

\* C10: in the merger's scan the next segment is merged into the current one
\* iff next.start_time - current.end_time <= 1.5 + the mean of the two
\* scores; otherwise current is emitted and next becomes current; the last
\* current is emitted after the loop.
C10_MergeIffWithinThreshold ==
    [][pc = "merging" =>
        IF j <= Len(segments)
        THEN IF WithinDynamicThreshold(current, segments[j])
             THEN /\ merged' = merged
                  /\ current'.start_time = current.start_time
                  /\ current'.end_time = segments[j].end_time
             ELSE /\ merged' = Append(merged, current)
                  /\ current' = segments[j]
        ELSE merged' = Append(merged, current)]_vars

\* two segments of score 0.5 whose gap is 4.5 s stay two segments
C10_Witness ==
    /\ pc = "merged"
    /\ Len(segments) = 2
    /\ segments[1].best_score = 50 * Den
    /\ segments[2].best_score = 50 * Den
    /\ segments[2].start_time - segments[1].end_time = 45
    /\ Len(merged) = 2

\* gap <= max_gap and |score difference| <= 0.4, max_gap 2.0 iff the mean of
\* the two scores is strictly above 0.3
JoinRule(cur, last) ==
    LET gap == cur.timestamp_seconds - last.timestamp_seconds
        a == cur.similarity_score
        b == last.similarity_score
        max_gap == IF a + b > 60 * Den THEN 20 ELSE 10
    IN  /\ gap <= max_gap
        /\ a - b <= 40 * Den
        /\ b - a <= 40 * Den

\* C11: in _find_continuous_regions a frame joins the current region iff
\* its gap to the region's last frame is <= max_gap and the score difference
\* is <= 0.4 (max_gap 2.0 for a mean strictly above 0.3, else 1.0);
\* otherwise the current region is closed and the frame starts a new one.
C11_JoinIffRule ==
    [][(pc = "regions" /\ i <= Len(relevant_frames)) =>
        IF JoinRule(relevant_frames[i], current_region[Len(current_region)])
        THEN /\ current_region' = Append(current_region, relevant_frames[i])
             /\ regions' = regions
        ELSE /\ regions' = Append(regions, current_region)
             /\ current_region' = <<relevant_frames[i]>>]_vars

\* two frames of score 0.3 (mean exactly 0.3) 1.9 s apart were split
C11_Witness ==
    /\ pc = "regions"
    /\ Len(regions) = 1
    /\ regions[1][Len(regions[1])].similarity_score = 30 * Den
    /\ current_region[1].similarity_score = 30 * Den
    /\ current_region[1].timestamp_seconds
         - regions[1][Len(regions[1])].timestamp_seconds = 19

AboveThreshold(f) == f.similarity_score > 25 * Den

\* C12: no frame scoring <= 0.25 contributes to a returned segment: the
\* start_time, start_frame and representative image of every returned
\* segment are those of frames scoring strictly above 0.25.
C12_OnlyRelevantFramesContribute ==
    pc = "done" =>
        \A x \in 1..Len(result) :
            /\ \E y \in 1..Len(extracted_frames) :
                  /\ AboveThreshold(extracted_frames[y])
                  /\ extracted_frames[y].timestamp_seconds
                       = result[x].start_time
                  /\ extracted_frames[y].frame_number = result[x].start_frame
            /\ \E y \in 1..Len(extracted_frames) :
                  /\ AboveThreshold(extracted_frames[y])
                  /\ extracted_frames[y].pil_image = result[x].best_image

\* a frame of score exactly 0.25 precedes the frames that form the result
C12_Witness ==
    /\ pc = "done"
    /\ Len(extracted_frames) = 3
    /\ \E y \in 1..3 :
          /\ extracted_frames[y].similarity_score = 25 * Den
          /\ extracted_frames[y].timestamp_seconds = 0
    /\ Len(result) = 1
    /\ result[1].start_time = 10

\* three frames all scoring 0.1 give an empty result
C12_ExampleReached ==
    /\ pc = "done"
    /\ extracted_frames = <<Frame(0, 10), Frame(10, 10), Frame(20, 10)>>
    /\ result = <<>>

\* C13: every returned segment has end_time > start_time; a region spans its
\* first to its last frame timestamp, a single-frame region is widened to
\* start_time + 1.0, and one frame above 0.25 alone yields exactly one
\* segment [t, t + 1.0].
C13_PositiveDuration ==
    /\ pc = "done" =>
          \A x \in 1..Len(result) : result[x].end_time > result[x].start_time
    /\ pc = "merge" =>
          \A r \in 1..Len(segments) :
              /\ segments[r].start_time = regions[r][1].timestamp_seconds
              /\ segments[r].end_time =
                    IF Len(regions[r]) = 1
                    THEN regions[r][1].timestamp_seconds + 10
                    ELSE regions[r][Len(regions[r])].timestamp_seconds
    /\ (pc = "done" /\ Len(extracted_frames) = 1
        /\ AboveThreshold(extracted_frames[1])) =>
          /\ Len(result) = 1
          /\ result[1].start_time = extracted_frames[1].timestamp_seconds
          /\ result[1].end_time = extracted_frames[1].timestamp_seconds + 10

C13_Witness ==
    /\ pc = "done"
    /\ Len(extracted_frames) = 1
    /\ AboveThreshold(extracted_frames[1])
    /\ Len(result) = 1
    /\ result[1].end_time = result[1].start_time + 10

RECURSIVE ScoreSum(_, _)
ScoreSum(frames, m) ==
    IF m = 0 THEN 0 ELSE frames[m].similarity_score + ScoreSum(frames, m - 1)

\* C14: the score of the segment built from a region is the arithmetic mean
\* of the scores of all frames of the region, hence between the region's
\* minimum and maximum frame score.
C14_ScoreIsMean ==
    pc = "merge" =>
        \A r \in 1..Len(segments) :
            /\ segments[r].best_score * Len(regions[r])
                 = ScoreSum(regions[r], Len(regions[r]))
            /\ \E y \in 1..Len(regions[r]) :
                  regions[r][y].similarity_score <= segments[r].best_score
            /\ \E y \in 1..Len(regions[r]) :
                  regions[r][y].similarity_score >= segments[r].best_score

\* a region of two frames scoring 0.5 and 0.9 gives a segment of score 0.7
C14_Witness ==
    /\ pc = "merge"
    /\ Len(regions) = 1
    /\ Len(regions[1]) = 2
    /\ regions[1][1].similarity_score = 50 * Den
    /\ regions[1][2].similarity_score = 90 * Den
    /\ segments[1].best_score = 70 * Den

\* the frames above the threshold whose timestamps lie in the segment
Contributors(seg) ==
    { y \in 1..Len(extracted_frames) :
        /\ AboveThreshold(extracted_frames[y])
        /\ extracted_frames[y].timestamp_seconds >= seg.start_time
        /\ extracted_frames[y].timestamp_seconds <= seg.end_time }

\* the highest-scoring frame, the earliest among equals
IsTopFrame(y, set) ==
    \A z \in set :
        \/ extracted_frames[z].similarity_score
             < extracted_frames[y].similarity_score
        \/ /\ extracted_frames[z].similarity_score
                = extracted_frames[y].similarity_score
           /\ extracted_frames[y].timestamp_seconds
                <= extracted_frames[z].timestamp_seconds

\* C15: the representative image of every returned segment is the image of
\* the highest-scoring contributing frame (earliest on a tie), for a segment
\* built from one region and for a merged segment.
C15_BestImageIsTopFrame ==
    pc = "done" =>
        \A x \in 1..Len(result) :
            \E y \in Contributors(result[x]) :
                /\ IsTopFrame(y, Contributors(result[x]))
                /\ result[x].best_image = extracted_frames[y].pil_image

Ascending(frames) ==
    \A a, b \in 1..Len(frames) :
        a < b => frames[a].timestamp_seconds <= frames[b].timestamp_seconds

RepresentativeFrame(seg) ==
    CHOOSE y \in 1..Len(extracted_frames) :
        extracted_frames[y].pil_image = seg.best_image

\* C17: every returned segment's caption follows the formatting contract:
\* the representative frame's description with the segment's time range and
\* duration when that frame carries a non-empty caption, otherwise the
\* generic "Content from" form; for one-region and merged segments alike,
\* for every query.
C17_CaptionContract ==
    pc = "done" =>
        \A x \in 1..Len(result) :
            LET seg == result[x]
                source == extracted_frames[RepresentativeFrame(seg)].caption
            IN  /\ seg.caption.start = seg.start_time
                /\ seg.caption.end = seg.end_time
                /\ seg.caption.duration = seg.end_time - seg.start_time
                /\ IF source # None /\ source # ""
                   THEN /\ seg.caption.form = "described"
                        /\ seg.caption.text = source
                   ELSE seg.caption.form = "generic"

\* what call c returns when it runs alone on the engine
RunAlone(c) ==
    LET own == <<frame_interval[c]>>
        frs == ExtractFramesFromVideo(video[c], frame_interval[c])
        segs == SortSegmentsByTimestamp(RelevantSegmentsOf(frs, query, own))
    IN  Prefix(GroupNearbySegments(segs, MaxGapDoubled(frame_interval[c])),
               blip2_top_k)

\* C18: two searches interleaved on the same engine are independent: each
\* call's segments are computed from its own frame_interval only and equal
\* the result of running the call alone.
C18_CallsIndependent ==
    \A c \in Calls : call_pc[c] = "done" => results[c] = RunAlone(c)

\* every pair of consecutive frames satisfies the join rule
AllJoined(frs) ==
    \A y \in 2..Len(frs) : JoinRule(frs[y], frs[y - 1])

\* C19: if every pair of consecutive frames scoring above 0.25 satisfies
\* the join rule, segmentation returns exactly one segment, spanning the
\* first to the last such frame's timestamp, with score the mean of their
\* scores.
C19_AllJoinedOneSegment ==
    (pc = "done" /\ relevant_frames # <<>> /\ AllJoined(relevant_frames)) =>
        /\ Len(result) = 1
        /\ result[1].start_time = relevant_frames[1].timestamp_seconds
        /\ result[1].end_time =
               relevant_frames[Len(relevant_frames)].timestamp_seconds
        /\ result[1].best_score * Len(relevant_frames)
             = ScoreSum(relevant_frames, Len(relevant_frames))

\* C19 (amended): as above, except that a single such frame gives a segment
\* ending 1.0 s after its timestamp; with two or more frames the segment
\* ends at the last frame's timestamp.
C19_AllJoinedOneSegmentWidened ==
    (pc = "done" /\ relevant_frames # <<>> /\ AllJoined(relevant_frames)) =>
        LET first == relevant_frames[1].timestamp_seconds
            last == relevant_frames[Len(relevant_frames)].timestamp_seconds
        IN  /\ Len(result) = 1
            /\ result[1].start_time = first
            /\ result[1].end_time =
                   IF Len(relevant_frames) = 1 THEN first + min_duration ELSE last
            /\ result[1].best_score * Len(relevant_frames)
                 = ScoreSum(relevant_frames, Len(relevant_frames))

\* frames (0.0, 0.6), (0.5, 0.65), (1.0, 0.7) gave one segment 0.0-1.0 of
\* score 0.65
C19_Witness ==
    /\ pc = "done"
    /\ extracted_frames = <<Frame(0, 60), Frame(5, 65), Frame(10, 70)>>
    /\ Len(result) = 1
    /\ result[1].start_time = 0
    /\ result[1].end_time = 10
    /\ result[1].best_score = 65 * Den

RECURSIVE Flatten(_)
Flatten(regs) ==
    IF regs = <<>> THEN <<>> ELSE Head(regs) \o Flatten(Tail(regs))

\* C20: the regions returned by _find_continuous_regions partition its
\* input: every region is non-empty, the regions are in chronological
\* order, and concatenated in order they give back exactly the input frame
\* sequence, the final open region included.
C20_RegionsPartitionInput ==
    /\ pc = "regions" =>
          /\ current_region # <<>>
          /\ Flatten(regions) \o current_region
               = SubSeq(relevant_frames, 1, i - 1)
    /\ pc = "reduce" =>
          /\ Flatten(regions) = relevant_frames
          /\ \A r \in 1..Len(regions) : regions[r] # <<>>
          /\ \A r \in 1..(Len(regions) - 1) :
                regions[r][Len(regions[r])].timestamp_seconds
                  <= regions[r + 1][1].timestamp_seconds

\* three frames were split into a region of two and a final region of one
C20_Witness ==
    /\ pc = "reduce"
    /\ Len(relevant_frames) = 3
    /\ Len(regions) = 2
    /\ Len(regions[1]) = 2
    /\ Len(regions[2]) = 1

\* the input segments merged into the x-th output segment
MergedInto(x) ==
    { y \in 1..Len(segments) :
        /\ segments[y].start_time >= merged[x].start_time
        /\ x < Len(merged) =>
              segments[y].start_time < merged[x + 1].start_time }

\* C21: when _merge_close_segments merges next into current, current takes
\* next's score, representative image and keyframe path only if next's score
\* is strictly greater, and keeps its own otherwise; hence the score of a
\* merged segment is the maximum of the scores of the segments merged into
\* it.
C21_TakesStrictlyBetter ==
    /\ [][(pc = "merging" /\ j <= Len(segments)
           /\ WithinDynamicThreshold(current, segments[j])) =>
            IF segments[j].best_score > current.best_score
            THEN /\ current'.best_score = segments[j].best_score
                 /\ current'.best_image = segments[j].best_image
                 /\ current'.keyframe_path = segments[j].keyframe_path
            ELSE /\ current'.best_score = current.best_score
                 /\ current'.best_image = current.best_image
                 /\ current'.keyframe_path = current.keyframe_path]_vars
    /\ [](pc = "merged" =>
            \A x \in 1..Len(merged) :
                /\ \E y \in MergedInto(x) :
                      merged[x].best_score = segments[y].best_score
                /\ \A y \in MergedInto(x) :
                      segments[y].best_score <= merged[x].best_score)

\* two segments of equal score were merged and the first one's image kept
C21_Witness ==
    /\ pc = "merged"
    /\ Len(segments) = 2
    /\ Len(merged) = 1
    /\ segments[1].best_score = segments[2].best_score
    /\ merged[1].best_image = segments[1].best_image
    /\ segments[1].best_image # segments[2].best_image

\* C22: a merge only extends a segment: after next is merged into current,
\* current's end_time is >= its end_time before the merge and its start_time
\* and start_frame are unchanged.
C22_MergeOnlyExtends ==
    [][(pc = "merging" /\ j <= Len(segments)
        /\ WithinDynamicThreshold(current, segments[j])) =>
         /\ current'.end_time >= current.end_time
         /\ current'.start_time = current.start_time
         /\ current'.start_frame = current.start_frame]_vars

\* time range and score of every segment, scores in hundredths times Den
OnDemandRanges(segs) ==
    [x \in 1..Len(segs) |->
        <<segs[x].start_time, segs[x].end_time, segs[x].best_score>>]

BlipRanges(segs) ==
    [x \in 1..Len(segs) |->
        <<segs[x].start_time, segs[x].end_time, segs[x].confidence * Den>>]

\* C23: given the same (timestamp, score) observations the vision-language
\* path and the on-demand path produce the same segment time ranges and
\* scores.
C23_PathsAgree ==
    (pc = "done" /\ call_pc[1] = "done") =>
        OnDemandRanges(result) = BlipRanges(results[1])

\* C24: segmentation does not modify its inputs: the caller's frame list
\* keeps its order and every frame its fields, and _merge_close_segments
\* leaves every segment of its input list unchanged.
C24_InputsUnchanged ==
    [][/\ extracted_frames' = extracted_frames
       /\ pc \in {"merge", "merging"} => segments' = segments]_vars

\* an unsorted frame list was sorted into a copy and two of its segments
\* were merged
C24_Witness ==
    /\ pc = "done"
    /\ sorted_frames # extracted_frames
    /\ Len(segments) = 2
    /\ Len(merged) = 1
    /\ merged[1] # segments[1]

\* the earliest input segment of the best score
FirstBest(segs) ==
    segs[CHOOSE y \in 1..Len(segs) :
            /\ segs[y].best_score = BestOf(segs)
            /\ \A z \in 1..(y - 1) : segs[z].best_score < BestOf(segs)]

\* C25: when the best segment score is below 0.3 the quality filter returns
\* exactly one segment, the best-scoring one (the earliest in input order
\* among equal best scores); when the best score is at least 0.3 the
\* keep-the-best fallback is not taken: every returned segment meets the
\* threshold max(0.3, 0.7 * best).
C25_BelowFloorKeepsBest ==
    (pc = "done" /\ merged # <<>>) =>
        IF BestOf(merged) < 30 * Den
        THEN result = <<FirstBest(merged)>>
        ELSE /\ result # <<>>
             /\ \A x \in 1..Len(result) : AboveBand(result[x], merged)

\* three segments of score 0.2: only the first is returned
C25_Witness ==
    /\ pc = "done"
    /\ Len(merged) = 3
    /\ \A y \in 1..3 : merged[y].best_score = 20 * Den
    /\ result = <<merged[1]>>

\* C26: segmentation returns at least one segment whenever at least one
\* input frame scores strictly above 0.25; region splitting, merging and
\* quality filtering never drop every match.
C26_MatchGivesSegment ==
    (pc = "done" /\ \E y \in 1..Len(extracted_frames) :
                       AboveThreshold(extracted_frames[y]))
        => result # <<>>

\* three regions were merged into two segments and one was filtered out
C26_Witness ==
    /\ pc = "done"
    /\ Len(regions) = 3
    /\ Len(merged) = 2
    /\ Len(result) = 1

\* the merged segments whose time range contains the frame's timestamp
Covering(frame) ==
    { x \in 1..Len(merged) :
        /\ merged[x].start_time <= frame.timestamp_seconds
        /\ frame.timestamp_seconds <= merged[x].end_time }

\* C27: after region detection, reduction and merging, before the quality
\* filter, every frame scoring above 0.25 has its timestamp inside the
\* [start_time, end_time] range of exactly one merged segment.
C27_FrameInExactlyOneSegment ==
    pc = "merged" =>
        \A y \in 1..Len(extracted_frames) :
            AboveThreshold(extracted_frames[y]) =>
                Cardinality(Covering(extracted_frames[y])) = 1

\* two overlapping segments were merged into one, another stayed separate
C27_Witness ==
    /\ pc = "merged"
    /\ Len(segments) = 3
    /\ Len(merged) = 2
    /\ \E x \in 1..2 : segments[x + 1].start_time < segments[x].end_time

\* C28: for every k >= 1 the selector returns exactly min(k, len(candidates))
\* items, each of them one of the candidates and none returned twice,
\* whether or not the diversity pass alone reaches k.
C28_ReturnsMinKLenDistinct ==
    (pc = "done" /\ top_k >= 1) =>
        /\ Len(result) = Min2(top_k, Len(similarities))
        /\ \A x \in 1..Len(result) :
              \E y \in 1..Len(similarities) : similarities[y] = result[x]
        /\ \A a, b \in 1..Len(result) : a # b => result[a] # result[b]

\* the diversity pass found fewer than k frames and the fill pass added more
C28_Witness ==
    /\ pc = "done"
    /\ top_k >= 2
    /\ top_k < Len(similarities)
    /\ Len(timestamps) < top_k
    /\ Len(result) = top_k

\* the per-frame segments that fell into the x-th returned group
GroupMembers(x) ==
    { y \in 1..Len(relevant_segments[1]) :
        /\ relevant_segments[1][y].timestamp_seconds >= results[1][x].start_time
        /\ x < Len(results[1]) =>
              relevant_segments[1][y].timestamp_seconds
                < results[1][x + 1].start_time }

\* gap <= max(1.5 * interval, 2.0)
WithinMaxGap(a, b, interval) ==
    LET gap == b.timestamp_seconds - a.timestamp_seconds
    IN  2 * gap <= 3 * interval \/ gap <= 20

\* C29: in a single search the grouped segments returned for the
\* timestamp-sorted per-frame segments [t, t + interval] are chronological
\* and pairwise non-overlapping, each group spans from its earliest start to
\* its latest end and carries the fields of its highest-confidence member,
\* and two consecutive frames are in the same group iff their timestamp gap
\* is <= max(1.5 * interval, 2.0).
C29_GroupsOfSingleSearch ==
    call_pc[1] = "done" =>
        LET segs == relevant_segments[1]
            res == results[1]
        IN  /\ \A y \in 1..Len(segs) :
                  /\ segs[y].start_time = segs[y].timestamp_seconds
                  /\ segs[y].end_time
                       = segs[y].timestamp_seconds + frame_interval[1]
            /\ \A a, b \in 1..Len(res) :
                  a < b => res[a].end_time <= res[b].start_time
            /\ \A x \in 1..Len(res) :
                  /\ GroupMembers(x) # {}
                  /\ \E y \in GroupMembers(x) :
                        segs[y].start_time = res[x].start_time
                  /\ \A y \in GroupMembers(x) :
                        /\ res[x].start_time <= segs[y].start_time
                        /\ segs[y].end_time <= res[x].end_time
                  /\ \E y \in GroupMembers(x) :
                        segs[y].end_time = res[x].end_time
                  /\ \E y \in GroupMembers(x) :
                        /\ \A z \in GroupMembers(x) :
                              segs[z].confidence <= segs[y].confidence
                        /\ res[x].confidence = segs[y].confidence
                        /\ res[x].timestamp_seconds = segs[y].timestamp_seconds
                        /\ res[x].frame_number = segs[y].frame_number
                        /\ res[x].pil_image = segs[y].pil_image
                        /\ res[x].keyframe_path = segs[y].keyframe_path
                        /\ res[x].blip2_description.text
                             = segs[y].blip2_description.text
            /\ \A y \in 1..(Len(segs) - 1) :
                  WithinMaxGap(segs[y], segs[y + 1], frame_interval[1])
                    <=> \E x \in 1..Len(res) :
                           {y, y + 1} \subseteq GroupMembers(x)

\* at interval 1.0 two frames exactly 2.0 s apart were grouped, and the
\* group carries the fields of the later, more confident frame
C29_Witness ==
    /\ call_pc[1] = "done"
    /\ frame_interval[1] = 10
    /\ Len(relevant_segments[1]) = 2
    /\ relevant_segments[1][2].timestamp_seconds
         - relevant_segments[1][1].timestamp_seconds = 20
    /\ relevant_segments[1][1].confidence < relevant_segments[1][2].confidence
    /\ Len(results[1]) = 1
    /\ results[1][1].start_time = 0
    /\ results[1][1].end_time = 30
    /\ results[1][1].pil_image = relevant_segments[1][2].pil_image

====
